---- MODULE Spec2Model ----
(***************************************************************************)
(* Model of diffusion/datasets/image_caption.py:                           *)
(*   - StreamingImageCaptionDataset.__init__ and .__getitem__              *)
(*   - build_streaming_image_caption_dataloader                            *)
(* Python values are records [type, val]; a str is its sequence of         *)
(* characters, so that str.lower() and iteration over a str are computed.  *)
(* Tensors are records [shape, data] with data in row-major order.         *)
(* Probabilities and torch.rand draws are integers scaled by RandRes:      *)
(* RandRes stands for 1.0 and torch.rand(1) ranges over 0..RandRes-1,      *)
(* the half-open interval [0, 1).                                          *)
(***************************************************************************)
EXTENDS Integers, Sequences, FiniteSets, TLC

VARIABLES pc, args, result, dataset, sample, item

vars == <<pc, args, result, dataset, sample, item>>

(* ------------------------------ bounds --------------------------------- *)
MaxDirs == 3        \* longest remote / local sequence
MaxDim == 2         \* largest image width / height
RandRes == 2        \* resolution of torch.rand draws and probabilities
ModelMaxLength == 2 \* tokenizer.model_max_length (padded sequence length)
MaxCaptions == 2    \* longest list of candidate captions

(* --------------------------- Python values ----------------------------- *)
None == [type |-> "NoneType", val |-> <<>>]
PyStr(chars) == [type |-> "str", val |-> chars]
PyList(elems) == [type |-> "list", val |-> elems]
PyGenerator(elems) == [type |-> "generator", val |-> elems]
PyInt == [type |-> "int", val |-> <<>>]

\* isinstance(v, str)
IsStr(v) == v.type = "str"
\* isinstance(v, collections.abc.Sequence): str, list and tuple are Sequences
IsSequence(v) == v.type \in {"str", "list", "tuple"}
\* iter(v) succeeds
IsIterable(v) == v.type \in {"str", "list", "tuple", "generator"}

UpperChars == <<"A", "C", "D", "E", "F", "G", "I", "L", "M", "N", "O", "P", "Q", "R", "S", "T", "U">>
LowerChars == <<"a", "c", "d", "e", "f", "g", "i", "l", "m", "n", "o", "p", "q", "r", "s", "t", "u">>

\* str.lower() on one character
LowerChar(c) ==
    IF \E i \in 1..Len(UpperChars) : UpperChars[i] = c
    THEN LowerChars[CHOOSE i \in 1..Len(UpperChars) : UpperChars[i] = c]
    ELSE c
\* str.upper() on one character (used only to enumerate inputs)
UpperChar(c) ==
    IF \E i \in 1..Len(LowerChars) : LowerChars[i] = c
    THEN UpperChars[CHOOSE i \in 1..Len(LowerChars) : LowerChars[i] = c]
    ELSE c

\* str.lower()
Lower(s) == [i \in 1..Len(s) |-> LowerChar(s[i])]

\* zip(a, b): pairs up to the shorter of the two iterables
Min(a, b) == IF a <= b THEN a ELSE b
Zip(a, b) == [i \in 1..Min(Len(a), Len(b)) |-> <<a[i], b[i]>>]

(* ------------------------------ strings -------------------------------- *)
square == <<"s", "q", "u", "a", "r", "e">>
random == <<"r", "a", "n", "d", "o", "m">>
aspect_ratio == <<"a", "s", "p", "e", "c", "t", "_", "r", "a", "t", "i", "o">>
none == <<"n", "o", "n", "e">>
diagonal == <<"d", "i", "a", "g", "o", "n", "a", "l">>
first == <<"f", "i", "r", "s", "t">>
last == <<"l", "a", "s", "t">>

\* the spellings of a word that the inputs range over
Capitalize(s) == [i \in 1..Len(s) |-> IF i = 1 THEN UpperChar(s[i]) ELSE s[i]]
Upper(s) == [i \in 1..Len(s) |-> UpperChar(s[i])]
Spellings(s) == {s, Capitalize(s), Upper(s)}

SD2 == "stabilityai/stable-diffusion-2-base"
SDXL == "stabilityai/stable-diffusion-xl-base-1.0"

(* ------------------------------ datasets ------------------------------- *)
\* a dataset object; constructed = FALSE until __init__ has returned
NoDataset ==
    [constructed |-> FALSE, streams |-> <<>>, crop |-> "None", transform |-> None,
     sdxl |-> FALSE, caption_drop_prob |-> 0, microcond_drop_prob |-> 0,
     caption_selection |-> <<>>, zero_dropped_captions |-> FALSE,
     tokenizer |-> "None"]

\* an exception, by type and message; NoError when none is raised
NoError == [type |-> "", msg |-> ""]
ValueError(msg) == [type |-> "ValueError", msg |-> msg]
TypeError(msg) == [type |-> "TypeError", msg |-> msg]
IndexError(msg) == [type |-> "IndexError", msg |-> msg]

\* the caption_selection check without the lower-casing of line 79
InitError_CaseSensitive(a) ==
    IF a.caption_selection.val \notin {first, random}
    THEN ValueError("Invalid caption selection")
    ELSE NoError

\* StreamingImageCaptionDataset.__init__, lines 79-81: the error raised
InitError(a) ==
    IF Lower(a.caption_selection.val) \notin {first, random}
    THEN ValueError("Invalid caption selection")
    ELSE NoError

\* StreamingImageCaptionDataset.__init__: the object left by a successful call
InitDataset(a) ==
    [constructed |-> TRUE,
     streams |-> a.streams,
     crop |-> a.crop,
     transform |-> a.transform,
     sdxl |-> a.sdxl,
     caption_drop_prob |-> a.caption_drop_prob,
     microcond_drop_prob |-> a.microcond_drop_prob,
     caption_selection |-> Lower(a.caption_selection.val),
     zero_dropped_captions |-> a.zero_dropped_captions,
     tokenizer |-> IF a.sdxl THEN "SDXLTokenizer" ELSE "AutoTokenizer"]

(* --------------------- build_streaming_image_caption_dataloader -------- *)
\* lines 215-219: the crop_type check
CropTypeLower(crop_type) == IF crop_type # None THEN Lower(crop_type.val) ELSE <<>>
\* the crop_type check without the lower-casing of line 217
CropTypeError_CaseSensitive(crop_type) ==
    crop_type # None /\ crop_type.val \notin {square, random, aspect_ratio}
CropTypeError(crop_type) ==
    crop_type # None /\ CropTypeLower(crop_type) \notin {square, random, aspect_ratio}

\* lines 227-236: remote and local after the type check.  The two ValueError
\* expressions of lines 233 and 236 are evaluated and discarded (there is no
\* raise statement), so neither branch changes the control flow.
NormalizeDirs(remote, local) ==
    IF IsStr(remote) /\ IsStr(local)
    THEN <<PyList(<<remote.val>>), PyList(<<local.val>>)>>
    ELSE <<remote, local>>

\* lines 238-241: one Stream per (remote, local) pair of zip(remote, local)
ZipError(remote, local) == ~IsIterable(remote) \/ ~IsIterable(local)
MakeStreams(remote, local) ==
    LET z == Zip(remote.val, local.val)
    IN  [i \in 1..Len(z) |-> [remote |-> z[i][1], local |-> z[i][2]]]

\* lines 248-256: the crop policy
SelectCrop(crop_type) ==
    LET ct == CropTypeLower(crop_type)
    IN  IF crop_type # None /\ ct = square THEN "LargestCenterSquare"
        ELSE IF crop_type # None /\ ct = random THEN "RandomCropSquare"
        ELSE IF crop_type # None /\ ct = aspect_ratio THEN "RandomCropAspectRatioTransorm"
        ELSE "None"

\* lines 258-260: the transform composition
DefaultTransform == <<"ToTensor", "Normalize">>
ComposeTransform(transform) ==
    IF transform = None THEN PyList(DefaultTransform) ELSE transform

\* the result of one call: the error raised ("" for none), the streams that
\* were constructed before it, the dataset, and whether a DataLoader is returned
NoResult == [err |-> NoError, streams |-> <<>>, dataset |-> NoDataset, dataloader |-> FALSE]

BuildResult(a) ==
    IF CropTypeError(a.crop_type)
    THEN [NoResult EXCEPT !.err = ValueError("Invalid crop_type")]
    ELSE
    LET dirs == NormalizeDirs(a.remote, a.local)
    IN  IF ZipError(dirs[1], dirs[2])
        THEN [NoResult EXCEPT !.err = TypeError("zip argument is not iterable")]
        ELSE
        LET streams == MakeStreams(dirs[1], dirs[2])
            sdxl == (a.tokenizer_name_or_path = SDXL)
            init == [streams |-> streams,
                     caption_drop_prob |-> a.caption_drop_prob,
                     microcond_drop_prob |-> a.microcond_drop_prob,
                     caption_selection |-> a.caption_selection,
                     crop |-> SelectCrop(a.crop_type),
                     transform |-> ComposeTransform(a.transform),
                     sdxl |-> sdxl,
                     zero_dropped_captions |-> a.zero_dropped_captions]
        IN  IF InitError(init) # NoError
            THEN [NoResult EXCEPT !.err = InitError(init), !.streams = streams]
            ELSE [err |-> NoError, streams |-> streams, dataset |-> InitDataset(init),
                  dataloader |-> TRUE]

(* ------------------------------ tensors -------------------------------- *)
Tensor(shape, data) == [shape |-> shape, data |-> data]
\* torch.tensor([a, b])
Tensor2(a, b) == Tensor(<<2>>, <<a, b>>)
\* t * k
MulScalar(t, k) == Tensor(t.shape, [p \in 1..Len(t.data) |-> t.data[p] * k])
\* t.squeeze(): every dimension of size 1 is removed
NotOne(d) == d # 1
Squeeze(t) == Tensor(SelectSeq(t.shape, NotOne), t.data)
\* torch.stack([a, b]): a new leading axis
Stack2(a, b) == Tensor(<<2>> \o a.shape, a.data \o b.data)
\* the intersection of the two masks instead of their union
LogicalOr_And(a, b) ==
    Tensor(a.shape, [p \in 1..Len(a.data) |-> IF a.data[p] # 0 /\ b.data[p] # 0 THEN 1 ELSE 0])

\* torch.logical_or(a, b).to(a.dtype)
LogicalOr(a, b) ==
    Tensor(a.shape, [p \in 1..Len(a.data) |-> IF a.data[p] # 0 \/ b.data[p] # 0 THEN 1 ELSE 0])

(* ------------------------------ __getitem__ ---------------------------- *)
\* lines 103-108: the image of the record as an RGB PIL image
DecodeImage(img) == [kind |-> "PIL", mode |-> "RGB", dims |-> img.dims]

\* lines 111-114: crop(img) returns the cropped image and its top / left offset;
\* c is the window chosen by the crop callable
ApplyCrop(ds, img, c) ==
    IF ds.crop # "None"
    THEN [img |-> [img EXCEPT !.dims = <<c.w, c.h>>], top |-> c.top, left |-> c.left]
    ELSE [img |-> img, top |-> 0, left |-> 0]

\* one transform of the composition; a PIL image has dims = size = (w, h),
\* a tensor has dims = shape = (c, h, w)
ApplyOne(t, img) ==
    CASE t = "ToTensor"  -> [kind |-> "Tensor", mode |-> img.mode, dims |-> <<3, img.dims[2], img.dims[1]>>]
      [] t = "Normalize" -> img
      [] t = "Transpose" -> [img EXCEPT !.dims = <<img.dims[2], img.dims[1]>>]
      [] t = "ToArray"   -> [kind |-> "ndarray", mode |-> img.mode, dims |-> <<img.dims[2], img.dims[1], 3>>]

RECURSIVE ApplyAll(_, _)
ApplyAll(ts, img) == IF ts = <<>> THEN img ELSE ApplyAll(Tail(ts), ApplyOne(Head(ts), img))

\* lines 115-116
ApplyTransform(ds, img) == IF ds.transform # None THEN ApplyAll(ds.transform.val, img) ELSE img

\* lines 122-127: (img_w, img_h) of the transformed image
ImageTypeError(img) == img.kind \notin {"Tensor", "PIL"}
\* height and width of a tensor read in the wrong order
TargetSize_Swapped(img) ==
    IF img.kind = "Tensor"
    THEN <<img.dims[Len(img.dims) - 1], img.dims[Len(img.dims)]>>
    ELSE <<img.dims[1], img.dims[2]>>
TargetSize(img) ==
    IF img.kind = "Tensor"
    THEN <<img.dims[Len(img.dims)], img.dims[Len(img.dims) - 1]>>
    ELSE <<img.dims[1], img.dims[2]>>

\* the dropout comparison of lines 135-139 reversed
MicrocondDrop_Reversed(ds, t, r) == IF r > ds.microcond_drop_prob THEN MulScalar(t, 0) ELSE t

\* lines 135-140: one microconditioning vector after its dropout draw r
MicrocondDrop(ds, t, r) == IF r < ds.microcond_drop_prob THEN MulScalar(t, 0) ELSE t

\* lines 129-140: the three microconditioning entries of the sample
Microcond(ds, orig, cropped, img, r) ==
    [cond_crops_coords_top_left |-> MicrocondDrop(ds, Tensor2(cropped.top, cropped.left), r[1]),
     cond_original_size |-> MicrocondDrop(ds, Tensor2(orig[1], orig[2]), r[2]),
     cond_target_size |-> MicrocondDrop(ds, Tensor2(TargetSize(img)[1], TargetSize(img)[2]), r[3])]

\* lines 143-155: the caption step.  r is the dropout draw, j the index that
\* random.sample draws.
\* the dropout comparison of line 143 reversed
CaptionDropped_Reversed(ds, r) == r > ds.caption_drop_prob
CaptionDropped(ds, r) == r < ds.caption_drop_prob
CaptionError(ds, caption, r) ==
    IF CaptionDropped(ds, r) \/ caption.type # "list" \/ caption.val # <<>> THEN NoError
    ELSE IF ds.caption_selection = first THEN IndexError("list index out of range")
    ELSE ValueError("Sample larger than population or is negative")
\* the first policy taking the last candidate instead of index 0
SelectCaption_Last(ds, caption, j) ==
    IF caption.type = "list" /\ ds.caption_selection = first THEN caption.val[Len(caption.val)]
    ELSE IF caption.type = "list" /\ ds.caption_selection = random THEN caption.val[j]
    ELSE caption.val
SelectCaption(ds, caption, j) ==
    IF caption.type = "list" /\ ds.caption_selection = first THEN caption.val[1]
    ELSE IF caption.type = "list" /\ ds.caption_selection = random THEN caption.val[j]
    ELSE caption.val
CaptionText(ds, caption, r, j) ==
    IF CaptionDropped(ds, r) THEN "" ELSE SelectCaption(ds, caption, j)
DropCaptionMask(ds, r) ==
    IF CaptionDropped(ds, r)
    THEN (IF ds.zero_dropped_captions THEN 0 ELSE 1)
    ELSE 1

\* lines 157-162: what one (sub-)tokenizer returns with padding='max_length'
\* and return_tensors='pt': ids and mask of shape (1, L); n positions hold
\* tokens of the vocabulary of sub-tokenizer k, the others the pad token
Encoding(k, n) ==
    [input_ids |-> Tensor(<<1, ModelMaxLength>>, [p \in 1..ModelMaxLength |-> IF p <= n THEN 10 * k + p ELSE 0]),
     attention_mask |-> Tensor(<<1, ModelMaxLength>>, [p \in 1..ModelMaxLength |-> IF p <= n THEN 1 ELSE 0])]
MaxLengthArg(ds) == IF ds.sdxl THEN "None" ELSE "model_max_length"
\* the tokenizer's return value: one encoding, or for the SDXLTokenizer the
\* lists of the two sub-tokenizers' ids and masks
TokenizerOut(ds, n) ==
    IF ds.sdxl
    THEN [input_ids |-> <<Encoding(1, n[1]).input_ids, Encoding(2, n[2]).input_ids>>,
          attention_mask |-> <<Encoding(1, n[1]).attention_mask, Encoding(2, n[2]).attention_mask>>]
    ELSE [input_ids |-> Encoding(1, n[1]).input_ids,
          attention_mask |-> Encoding(1, n[1]).attention_mask]

\* lines 163-173
\* the single-tokenizer ids used without squeeze()
TokenizedCaption_NoSqueeze(ds, tok) ==
    IF ds.sdxl
    THEN Stack2(Squeeze(tok.input_ids[1]), Squeeze(tok.input_ids[2]))
    ELSE tok.input_ids
TokenizedCaption(ds, tok) ==
    IF ds.sdxl
    THEN Stack2(Squeeze(tok.input_ids[1]), Squeeze(tok.input_ids[2]))
    ELSE Squeeze(tok.input_ids)
AttentionMask(ds, tok) ==
    IF ds.sdxl
    THEN LogicalOr(tok.attention_mask[1], tok.attention_mask[2])
    ELSE tok.attention_mask

NoItem == [status |-> "none"]

\* the whole of __getitem__ on record rec; e holds what the call draws from
\* its environment: the crop window, the four torch.rand draws, the index
\* drawn by random.sample and the token counts of the tokenizer
GetItemResult(ds, rec, e) ==
    LET decoded == DecodeImage(rec.image)
        orig == decoded.dims
        cropped == ApplyCrop(ds, decoded, e.crop)
        img == ApplyTransform(ds, cropped.img)
        text == CaptionText(ds, rec.caption, e.rand[4], e.pick)
        tok == TokenizerOut(ds, e.tokens)
        base == [image |-> img,
                 drop_caption_mask |-> DropCaptionMask(ds, e.rand[4]),
                 captions |-> TokenizedCaption(ds, tok),
                 attention_mask |-> AttentionMask(ds, tok)]
    IN  IF ds.sdxl /\ ImageTypeError(img)
        THEN [status |-> "error",
              err |-> ValueError("Image after transformations must either be a PIL Image or Torch Tensor")]
        ELSE IF CaptionError(ds, rec.caption, e.rand[4]) # NoError
        THEN [status |-> "error", err |-> CaptionError(ds, rec.caption, e.rand[4])]
        ELSE [status |-> "ok",
              tokenizer_call |-> [text |-> text, max_length |-> MaxLengthArg(ds)],
              tokenizer_out |-> tok,
              out |-> IF ds.sdxl
                      THEN base @@ Microcond(ds, orig, cropped, img, e.rand)
                      ELSE base]

(* ------------------------------ inputs --------------------------------- *)
RemoteDirs == [i \in 1..MaxDirs |-> <<"r", "0" >> \o <<ToString(i)>>]
LocalDirs == [i \in 1..MaxDirs |-> <<"l", "0">> \o <<ToString(i)>>]

DirValues(dirs) ==
    {PyStr(dirs[1])}
    \cup {PyList(SubSeq(dirs, 1, n)) : n \in 0..MaxDirs}
    \cup {PyGenerator(SubSeq(dirs, 1, 1)), PyInt}

CropTypes ==
    {None} \cup {PyStr(s) : s \in UNION {Spellings(w) : w \in {square, random, aspect_ratio, none, diagonal}}}

\* probabilities 0.0, 1 / RandRes and 1.0
Probs == {0, 1, RandRes}

\* the (crop, transform) pairs a dataset is constructed with
CropTransforms ==
    {<<"None", None>>, <<"None", PyList(DefaultTransform)>>, <<"None", PyList(<<"Transpose">>)>>,
     <<"None", PyList(<<"ToArray">>)>>, <<"Callable", PyList(DefaultTransform)>>}

BuildArgs ==
    [remote : DirValues(RemoteDirs), local : DirValues(LocalDirs),
     tokenizer_name_or_path : {SD2, SDXL},
     caption_drop_prob : {0}, microcond_drop_prob : {0},
     caption_selection : {PyStr(first), PyStr(Upper(random))},
     transform : {None, PyList(<<"Transpose">>)},
     crop_type : CropTypes,
     zero_dropped_captions : {TRUE}]

InitArgs ==
    {[streams |-> <<>>,
      caption_drop_prob |-> cp, microcond_drop_prob |-> mp,
      caption_selection |-> cs,
      crop |-> ct[1],
      transform |-> ct[2],
      sdxl |-> x,
      zero_dropped_captions |-> z] :
        cp \in Probs, mp \in Probs,
        cs \in {PyStr(first), PyStr(random), PyStr(Upper(random)), PyStr(last)},
        ct \in CropTransforms, x \in BOOLEAN, z \in BOOLEAN}

NoArgs == [call |-> "none"]

Dims == (1..MaxDim) \X (1..MaxDim)
Images ==
    {[kind |-> "bytes", mode |-> "RGB", dims |-> d] : d \in Dims}
    \cup {[kind |-> "PIL", mode |-> "L", dims |-> <<MaxDim, 1>>]}
CaptionTexts == <<"a dog", "a puppy", "a cat">>
Captions ==
    {[type |-> "str", val |-> CaptionTexts[1]]}
    \cup {[type |-> "list", val |-> SubSeq(CaptionTexts, 1, n)] : n \in 0..MaxCaptions}
\* every image with a one-string caption, and one image with every caption
Records ==
    [image : Images, caption : {[type |-> "str", val |-> CaptionTexts[1]]}]
    \cup [image : {[kind |-> "bytes", mode |-> "RGB", dims |-> <<MaxDim, 1>>]}, caption : Captions]
NoRecord == [image |-> "none"]

Rands == 0..(RandRes - 1)
NoWindow == [w |-> 0, h |-> 0, top |-> 0, left |-> 0]
\* the windows a crop callable may return for an image of size dims
CropWindows(ds, dims) ==
    IF ds.crop = "None" THEN {NoWindow}
    ELSE {[w |-> dims[1], h |-> dims[2], top |-> 0, left |-> 0],
          [w |-> 1, h |-> 1, top |-> dims[2] - 1, left |-> dims[1] - 1]}
\* the draws __getitem__ makes: lines 135-140 only run in sdxl mode, line 154
\* only for a list under the random policy
RandDraws(ds) ==
    IF ds.sdxl THEN [1..4 -> Rands]
    ELSE {<<0, 0, 0, r>> : r \in Rands}
Picks(ds, caption) ==
    IF caption.type = "list" /\ ds.caption_selection = random /\ caption.val # <<>>
    THEN 1..Len(caption.val) ELSE {1}
TokenCounts(ds) ==
    IF ds.sdxl THEN (0..ModelMaxLength) \X (0..ModelMaxLength)
    ELSE {<<n, 0>> : n \in 0..ModelMaxLength}

(* ------------------------------ actions -------------------------------- *)
Init ==
    /\ pc = "start"
    /\ args = NoArgs
    /\ result = NoResult
    /\ dataset = NoDataset
    /\ sample = NoRecord
    /\ item = NoItem

\* one call of build_streaming_image_caption_dataloader
Build ==
    /\ pc = "start"
    /\ \E a \in BuildArgs :
        /\ args' = [call |-> "build", a |-> a]
        /\ result' = BuildResult(a)
    /\ pc' = "built"
    /\ UNCHANGED <<dataset, sample, item>>

\* one call of StreamingImageCaptionDataset(...)
Construct ==
    /\ pc = "start"
    /\ \E a \in InitArgs :
        /\ args' = [call |-> "init", a |-> a]
        /\ IF InitError(a) # NoError
           THEN /\ result' = [NoResult EXCEPT !.err = InitError(a)]
                /\ dataset' = NoDataset
                /\ pc' = "init_failed"
           ELSE /\ result' = NoResult
                /\ dataset' = InitDataset(a)
                /\ pc' = "ready"
    /\ UNCHANGED <<sample, item>>

\* one call of dataset[index]
GetItem ==
    /\ pc = "ready"
    /\ \E rec \in Records :
       \E c \in CropWindows(dataset, rec.image.dims), r \in RandDraws(dataset),
          j \in Picks(dataset, rec.caption), n \in TokenCounts(dataset) :
        /\ sample' = rec
        /\ item' = GetItemResult(dataset, rec, [crop |-> c, rand |-> r, pick |-> j, tokens |-> n])
    /\ pc' = "sampled"
    /\ UNCHANGED <<args, result, dataset>>

Next == Build \/ Construct \/ GetItem

Spec == Init /\ [][Next]_vars

(* ------------------------------ properties ----------------------------- *)
BuildDone == pc = "built"
InitDone == pc \in {"ready", "init_failed"}
Sampled == pc = "sampled" /\ item.status = "ok"

\* a call that raised ValueError before any Stream was constructed
FailsBeforeStreams ==
    /\ result.err.type = "ValueError"
    /\ result.streams = <<>>
    /\ ~result.dataset.constructed
    /\ ~result.dataloader

\* C1: build_streaming_image_caption_dataloader raises (ValueError) whenever
\* remote and local are both lists of different lengths; no stream is
\* constructed and no dataloader is returned.
C1_MismatchedLengthFails ==
    (BuildDone /\ args.a.remote.type = "list" /\ args.a.local.type = "list"
        /\ Len(args.a.remote.val) # Len(args.a.local.val))
    => FailsBeforeStreams

\* C2: build_streaming_image_caption_dataloader raises (ValueError) whenever
\* remote and local are neither both strings nor both sequences; no stream is
\* constructed and no dataloader is returned.
C2_ArgumentTypeFails ==
    (BuildDone /\ ~(IsStr(args.a.remote) /\ IsStr(args.a.local))
        /\ ~(IsSequence(args.a.remote) /\ IsSequence(args.a.local)))
    => FailsBeforeStreams

CropTypeRejected ==
    /\ result.err = ValueError("Invalid crop_type")
    /\ FailsBeforeStreams
\* the crop policy of the dataset of a call that returned a dataloader
CropPolicyIs(words, policy) ==
    (result.dataloader /\ args.a.crop_type \in {PyStr(s) : s \in words})
    => result.dataset.crop = policy

\* C3 as stated: crop_type is accepted exactly when it is one of square,
\* random, aspect_ratio or None, and every other value is rejected with
\* ValueError before any stream or dataset is constructed.
C3_ExactCropTypes ==
    BuildDone =>
        IF args.a.crop_type \in {None, PyStr(square), PyStr(random), PyStr(aspect_ratio)}
        THEN ~CropTypeRejected
        ELSE CropTypeRejected

\* C3 amended: crop_type is accepted exactly when it is None or a string that
\* spells square, random or aspect_ratio in any letter case; the matching crop
\* policy is selected (none for None), and every other string is rejected
\* with ValueError before any stream or dataset is constructed.
C3_CropTypesAnyCase ==
    BuildDone =>
        /\ IF args.a.crop_type \in
                {None} \cup {PyStr(s) : s \in Spellings(square) \cup Spellings(random) \cup Spellings(aspect_ratio)}
           THEN ~CropTypeRejected
           ELSE CropTypeRejected
        /\ CropPolicyIs(Spellings(square), "LargestCenterSquare")
        /\ CropPolicyIs(Spellings(random), "RandomCropSquare")
        /\ CropPolicyIs(Spellings(aspect_ratio), "RandomCropAspectRatioTransorm")
        /\ (result.dataloader /\ args.a.crop_type = None) => result.dataset.crop = "None"

C3_Witness ==
    /\ BuildDone
    /\ args.a.crop_type = PyStr(Capitalize(square))
    /\ result.dataloader
    /\ result.dataset.crop = "LargestCenterSquare"

\* C4 as stated: constructing the dataset succeeds for caption_selection
\* 'first' and 'random' and fails with ValueError for any other string.
C4_ExactCaptionSelections ==
    (InitDone /\ args.call = "init") =>
        IF args.a.caption_selection \in {PyStr(first), PyStr(random)}
        THEN dataset.constructed /\ result.err = NoError
        ELSE ~dataset.constructed /\ result.err = ValueError("Invalid caption selection")

\* C4 amended: constructing the dataset succeeds for every caption_selection
\* that spells first or random in any letter case, the dataset holding the
\* lower-case policy, and fails with ValueError for any other string.
C4_CaptionSelectionsAnyCase ==
    (InitDone /\ args.call = "init") =>
        IF args.a.caption_selection \in {PyStr(s) : s \in Spellings(first)}
        THEN dataset.constructed /\ result.err = NoError /\ dataset.caption_selection = first
        ELSE IF args.a.caption_selection \in {PyStr(s) : s \in Spellings(random)}
        THEN dataset.constructed /\ result.err = NoError /\ dataset.caption_selection = random
        ELSE ~dataset.constructed /\ result.err = ValueError("Invalid caption selection")

C4_Witness ==
    /\ pc = "ready"
    /\ args.a.caption_selection = PyStr(Upper(random))
    /\ dataset.caption_selection = random

\* C5: with caption_drop_prob = 1.0 every sample, in single- and in
\* dual-tokenizer mode, passes the empty string to the tokenizer and has
\* drop_caption_mask 0.0 if zero_dropped_captions is set and 1.0 otherwise.
C5_AlwaysDropped ==
    (Sampled /\ dataset.caption_drop_prob = RandRes) =>
        /\ item.tokenizer_call.text = ""
        /\ item.out.drop_caption_mask = (IF dataset.zero_dropped_captions THEN 0 ELSE 1)

C5_Witness ==
    /\ Sampled /\ dataset.caption_drop_prob = RandRes
    /\ dataset.zero_dropped_captions /\ dataset.sdxl
    /\ sample.caption.type = "list" /\ Len(sample.caption.val) = 2
    /\ item.out.drop_caption_mask = 0

\* C6: with caption_drop_prob = 0.0 every sample has drop_caption_mask 1.0,
\* and the text passed to the tokenizer is the record's caption if that is a
\* string, its candidate at index 0 under the first policy, and one of its
\* candidates under the random policy.
C6_NeverDropped ==
    (Sampled /\ dataset.caption_drop_prob = 0) =>
        /\ item.out.drop_caption_mask = 1
        /\ sample.caption.type = "str" => item.tokenizer_call.text = sample.caption.val
        /\ (sample.caption.type = "list" /\ dataset.caption_selection = first)
            => item.tokenizer_call.text = sample.caption.val[1]
        /\ (sample.caption.type = "list" /\ dataset.caption_selection = random)
            => \E i \in 1..Len(sample.caption.val) : item.tokenizer_call.text = sample.caption.val[i]

C6_Witness ==
    /\ Sampled /\ dataset.caption_drop_prob = 0
    /\ dataset.caption_selection = first /\ dataset.zero_dropped_captions
    /\ sample.caption.type = "list" /\ Len(sample.caption.val) = 2
    /\ item.tokenizer_call.text = "a dog"

Zero2 == Tensor(<<2>>, <<0, 0>>)

\* C7: in sdxl mode with microcond_drop_prob = 1.0 the three
\* microconditioning vectors of every sample are the zero 2-vector.
C7_MicrocondAlwaysDropped ==
    (Sampled /\ dataset.sdxl /\ dataset.microcond_drop_prob = RandRes) =>
        /\ item.out.cond_crops_coords_top_left = Zero2
        /\ item.out.cond_original_size = Zero2
        /\ item.out.cond_target_size = Zero2

C7_Witness ==
    /\ Sampled /\ dataset.sdxl /\ dataset.microcond_drop_prob = RandRes
    /\ dataset.crop # "None"
    /\ sample.image.dims = <<MaxDim, 1>>
    /\ item.out.cond_target_size = Zero2

\* (width, height) of the image of the sample, read from the sample itself
PostTransformSize ==
    IF item.out.image.kind = "Tensor"
    THEN Tensor2(item.out.image.dims[3], item.out.image.dims[2])
    ELSE Tensor2(item.out.image.dims[1], item.out.image.dims[2])
OriginalSize == Tensor2(sample.image.dims[1], sample.image.dims[2])

\* C8 as stated: in sdxl mode with no crop configured, cond_original_size is
\* the (W, H) of the record's image and cond_target_size the (width, height)
\* of the image after the transform.
C8_SizesAlwaysReported ==
    (Sampled /\ dataset.sdxl /\ dataset.crop = "None") =>
        /\ item.out.cond_original_size = OriginalSize
        /\ item.out.cond_target_size = PostTransformSize

\* C8 amended: in sdxl mode with no crop configured, cond_original_size is
\* the (W, H) of the record's image or the zero vector, cond_target_size is
\* the (width, height) of the image after the transform or the zero vector,
\* and with microcond_drop_prob = 0.0 neither is zeroed.
C8_SizesUnlessDropped ==
    (Sampled /\ dataset.sdxl /\ dataset.crop = "None") =>
        /\ item.out.cond_original_size \in {OriginalSize, Zero2}
        /\ item.out.cond_target_size \in {PostTransformSize, Zero2}
        /\ dataset.microcond_drop_prob = 0 =>
            /\ item.out.cond_original_size = OriginalSize
            /\ item.out.cond_target_size = PostTransformSize

C8_Witness ==
    /\ Sampled /\ dataset.sdxl /\ dataset.crop = "None"
    /\ dataset.microcond_drop_prob = 0
    /\ sample.image.dims = <<1, MaxDim>>
    /\ item.out.image.kind = "Tensor"
    /\ item.out.cond_target_size = Tensor2(1, MaxDim)

\* C9: in sdxl mode the attention_mask of every sample is 1 at a position
\* exactly when one of the two sub-tokenizer masks is 1 there (and 0
\* otherwise), and captions is the two id sequences stacked in tokenizer order.
C9_MaskIsUnion ==
    (Sampled /\ dataset.sdxl) =>
        /\ \A p \in 1..ModelMaxLength :
            /\ item.out.attention_mask.data[p] \in {0, 1}
            /\ item.out.attention_mask.data[p] = 1 <=>
                (item.tokenizer_out.attention_mask[1].data[p] = 1
                    \/ item.tokenizer_out.attention_mask[2].data[p] = 1)
        /\ item.out.captions.shape = <<2, ModelMaxLength>>
        /\ item.out.captions.data =
            item.tokenizer_out.input_ids[1].data \o item.tokenizer_out.input_ids[2].data

C9_Witness ==
    /\ Sampled /\ dataset.sdxl
    /\ item.tokenizer_out.attention_mask[1].data = [p \in 1..ModelMaxLength |-> IF p = 1 THEN 1 ELSE 0]
    /\ item.tokenizer_out.attention_mask[2].data = [p \in 1..ModelMaxLength |-> 1]
    /\ item.out.attention_mask.data = [p \in 1..ModelMaxLength |-> 1]

SampleHasTokens == {"captions", "attention_mask"} \subseteq DOMAIN item.out

\* C10 as stated: every sample has captions and attention_mask, and in
\* single-tokenizer mode both are the tokenizer's outputs without their
\* leading dimension of size 1, so that the two have the same shape.
C10_BothSqueezed ==
    Sampled =>
        /\ SampleHasTokens
        /\ ~dataset.sdxl =>
            /\ item.out.captions.shape = <<ModelMaxLength>>
            /\ item.out.captions.data = item.tokenizer_out.input_ids.data
            /\ item.out.attention_mask.shape = <<ModelMaxLength>>
            /\ item.out.attention_mask.data = item.tokenizer_out.attention_mask.data

\* C10 amended: every sample has captions and attention_mask; in
\* single-tokenizer mode captions is the tokenizer's input_ids without its
\* leading dimension of size 1 (shape (L)), and attention_mask is the
\* tokenizer's attention_mask unchanged, leading dimension kept (shape (1, L)).
C10_OnlyIdsSqueezed ==
    Sampled =>
        /\ SampleHasTokens
        /\ ~dataset.sdxl =>
            /\ item.out.captions.shape = <<ModelMaxLength>>
            /\ item.out.captions.data = item.tokenizer_out.input_ids.data
            /\ item.out.attention_mask.shape = <<1, ModelMaxLength>>
            /\ item.out.attention_mask.data = item.tokenizer_out.attention_mask.data

C10_Witness ==
    /\ Sampled /\ ~dataset.sdxl
    /\ item.tokenizer_out.attention_mask.data = [p \in 1..ModelMaxLength |-> IF p = 1 THEN 1 ELSE 0]
    /\ item.out.captions.shape = <<ModelMaxLength>>
    /\ item.out.attention_mask.shape = <<1, ModelMaxLength>>
====
